---- MODULE Spec2Model ----
(***************************************************************************)
(* A model of the GPL (Get Pharma Literature) tool: the PubMedSearcher of  *)
(* gpl/core.py and the command line entry point of gpl/cli.py.             *)
(*                                                                         *)
(* One behaviour is one invocation of one entry point: the CLI command     *)
(* main, or a direct call of a PubMedSearcher method.  Python str values   *)
(* are TLA+ strings, lists are sequences, dicts are records whose DOMAIN   *)
(* is the set of keys present.  An absent Optional[str] and '' are both    *)
(* "" (the code only tests them for truth).                                *)
(***************************************************************************)
EXTENDS Naturals, Sequences, FiniteSets, TLC

(* ----------------------------- bounds ---------------------------------- *)

\* The longest id list a search response carries.
MaxIds == 2

\* The most <PubmedArticle> elements a detail document carries.
MaxArticles == 2
MaxEmails == 2

(* ------------------------- Python str helpers -------------------------- *)

RECURSIVE Join(_, _)
\* sep.join(parts)
Join(sep, parts) ==
  IF parts = <<>> THEN ""
  ELSE IF Len(parts) = 1 THEN parts[1]
  ELSE parts[1] \o sep \o Join(sep, Tail(parts))

IsSpace(c) == c \in {" ", "\t", "\n"}

RECURSIVE LStrip(_)
LStrip(s) == IF s # "" /\ IsSpace(Head(s)) THEN LStrip(Tail(s)) ELSE s

RECURSIVE RStrip(_)
RStrip(s) ==
  IF s # "" /\ IsSpace(SubSeq(s, Len(s), Len(s)))
  THEN RStrip(SubSeq(s, 1, Len(s) - 1)) ELSE s

\* s.strip()
Strip(s) == RStrip(LStrip(s))

\* s.startswith(p)
StartsWith(s, p) == Len(p) <= Len(s) /\ SubSeq(s, 1, Len(p)) = p

\* dict.get(key, default)
Get(d, key, default) == IF key \in DOMAIN d THEN d[key] ELSE default

\* The set of elements of a sequence.
Range(seq) == {seq[i] : i \in 1..Len(seq)}

\* Every sequence of length at most n over S.
RECURSIVE SeqsUpTo(_, _)
SeqsUpTo(S, n) ==
  IF n = 0 THEN {<<>>}
  ELSE LET shorter == SeqsUpTo(S, n - 1)
       IN shorter \cup {Append(q, x) : q \in {r \in shorter : Len(r) = n - 1}, x \in S}

(* --------------------------- exceptions -------------------------------- *)

\* requests.exceptions: the classes session.get and raise_for_status raise
\* are subclasses of RequestException.
IsRequestException(cls) == cls \in {"ConnectionError", "Timeout", "HTTPError"}

\* Subclasses of Exception; KeyboardInterrupt and SystemExit are not.
IsException(cls) == cls \notin {"KeyboardInterrupt", "SystemExit"}

Exc(cls, msg) == [cls |-> cls, msg |-> msg]

(* --------------------------- Query Builder ----------------------------- *)

major_companies ==
  << "pfizer", "moderna", "johnson johnson", "merck", "novartis", "roche",
     "bristol myers", "abbvie", "gilead", "amgen", "biogen", "regeneron",
     "eli lilly", "gsk", "glaxosmithkline", "astrazeneca", "sanofi",
     "takeda", "bayer", "boehringer ingelheim", "vertex", "celgene" >>

company_terms ==
  << "pharmaceutical", "pharmaceuticals", "pharma", "biotech", "biotechnology",
     "therapeutics", "biopharmaceutical", "inc[ad]", "ltd[ad]", "corp[ad]",
     "corporation[ad]", "company[ad]", "laboratories[ad]", "lab[ad]" >>

QuotedClause(company) == "\"" \o company \o "\"[ad]"
TermClause(term) == term \o "[ad]"

\* The clauses of the company filter, in the order they are appended.
company_affiliation_parts ==
  [i \in 1..Len(major_companies) |-> QuotedClause(major_companies[i])]
    \o [i \in 1..Len(company_terms) |-> TermClause(company_terms[i])]

academic_exclusions ==
  << "\"university\"[ad]", "\"college\"[ad]", "\"institute\"[ad]", "\"hospital\"[ad]",
     "\"medical center\"[ad]", "\"department\"[ad]", "\"school\"[ad]" >>

company_filter == "(" \o Join(" OR ", company_affiliation_parts) \o ")"

academic_filter == "NOT (" \o Join(" OR ", academic_exclusions) \o ")"

build_company_filtered_query(query) ==
  "(" \o query \o ") AND " \o company_filter \o " " \o academic_filter

\* A pre-filter that is applied whatever the flag says.
enhanced_query_always(query, filter_companies) ==
  build_company_filtered_query(query)

\* search_papers, the query term it sends.
enhanced_query(query, filter_companies) ==
  IF filter_companies THEN build_company_filtered_query(query) ELSE query

(* ----------------------- detail document (XML) -------------------------- *)

(***************************************************************************)
(* The efetch document is a sequence of the markup pieces the parser's     *)
(* patterns look at.  A piece is a record: t is the element name, and the  *)
(* other fields are the child elements present in it.                      *)
(*   <PubmedArticleSet>, <PubmedArticle>     start tags                    *)
(*   <PMID>v</PMID>, <ArticleTitle>v</ArticleTitle>                        *)
(*   <Author>..</Author> with LastName, ForeName, Affiliation (each        *)
(*      optional; Affiliation stands for AffiliationInfo/Affiliation)      *)
(*   <PubDate>..</PubDate> with Year and optional Month, Day               *)
(*   Email: an e-mail shaped piece of text                                 *)
(***************************************************************************)

\* re.split(r'<PubmedArticle[^>]*>', ...): a start tag whose name begins with
\* PubmedArticle is a record-start marker.
IsRecordStart(tok) == StartsWith(tok.t, "PubmedArticle")

RECURSIVE SplitAcc(_, _, _)
SplitAcc(toks, cur, acc) ==
  IF toks = <<>> THEN Append(acc, cur)
  ELSE IF IsRecordStart(Head(toks)) THEN SplitAcc(Tail(toks), <<>>, Append(acc, cur))
  ELSE SplitAcc(Tail(toks), Append(cur, Head(toks)), acc)

\* re.split: the segments between the markers, the one before the first included.
SplitArticles(xml_content) == SplitAcc(xml_content, <<>>, <<>>)

IsTag(name, tok) == tok.t = name
ValueOf(tok) == tok.v

\* re.findall of a single-tag pattern: the values of that tag, in document order.
FindAll(name, toks) ==
  LET found == SelectSeq(toks, LAMBDA tok : IsTag(name, tok))
  IN [i \in 1..Len(found) |-> ValueOf(found[i])]

\* An author block counts when it has a LastName ([^<]+, so not empty) and a ForeName.
HasName(tok) ==
  /\ "LastName" \in DOMAIN tok /\ tok.LastName # ""
  /\ "ForeName" \in DOMAIN tok

author_info(tok) ==
  [ name |-> Strip(tok.ForeName \o " " \o tok.LastName),
    affiliation |-> IF "Affiliation" \in DOMAIN tok THEN Strip(tok.Affiliation) ELSE "" ]

\* NoDate: the '' (or {}) a paper without a date carries; both are false in Python.
NoDate == <<>>

\* re.search(date_pattern, article): the first PubDate of the segment.
pub_date_of(article) ==
  LET dates == SelectSeq(article, LAMBDA tok : IsTag("PubDate", tok) /\ "Year" \in DOMAIN tok)
  IN IF dates = <<>> THEN NoDate
     ELSE [ year |-> dates[1].Year,
            month |-> Get(dates[1], "Month", ""),
            day |-> Get(dates[1], "Day", "") ]

Min(a, b) == IF a <= b THEN a ELSE b

\* A parser that reads the identifier and the title of a record in its own segment.
parse_xml_response_per_segment(xml_content) ==
  LET articles == SplitArticles(xml_content)
  IN [ i \in 1..(Len(articles) - 1) |->
         LET article == articles[i + 1]
             pmids == FindAll("PMID", article)
             titles == FindAll("ArticleTitle", article)
             individual_authors ==
               SelectSeq(article, LAMBDA tok : IsTag("Author", tok) /\ HasName(tok))
         IN [ pmid |-> IF pmids # <<>> THEN pmids[1] ELSE "",
              title |-> IF titles # <<>> THEN titles[1] ELSE "",
              authors |-> [k \in 1..Len(individual_authors) |->
                             author_info(individual_authors[k])],
              pub_date |-> pub_date_of(article),
              emails |-> FindAll("Email", article) ] ]

parse_xml_response(xml_content) ==
  LET pmids == FindAll("PMID", xml_content)
      titles == FindAll("ArticleTitle", xml_content)
      articles == SplitArticles(xml_content)
      n == Min(Len(articles) - 1, Len(pmids))
  IN [ i \in 1..n |->
         LET article == articles[i + 1]
             individual_authors ==
               SelectSeq(article, LAMBDA tok : IsTag("Author", tok) /\ HasName(tok))
         IN [ pmid |-> pmids[i],
              title |-> IF i <= Len(titles) THEN titles[i] ELSE "",
              authors |-> [k \in 1..Len(individual_authors) |->
                             author_info(individual_authors[k])],
              pub_date |-> pub_date_of(article),
              emails |-> FindAll("Email", article) ] ]

(* --------------------------- Date Normalizer --------------------------- *)

Digits == "0123456789"
LowerCase == "abcdefghijklmnopqrstuvwxyz"
UpperCase == "ABCDEFGHIJKLMNOPQRSTUVWXYZ"

CharIn(c, alphabet) == \E i \in 1..Len(alphabet) : SubSeq(alphabet, i, i) = c
IndexIn(c, alphabet) == CHOOSE i \in 1..Len(alphabet) : SubSeq(alphabet, i, i) = c

\* s.isdigit()
IsDigit(s) == s # "" /\ \A i \in 1..Len(s) : CharIn(SubSeq(s, i, i), Digits)

UpperChar(c) ==
  IF CharIn(c, LowerCase)
  THEN LET k == IndexIn(c, LowerCase) IN SubSeq(UpperCase, k, k) ELSE c
LowerChar(c) ==
  IF CharIn(c, UpperCase)
  THEN LET k == IndexIn(c, UpperCase) IN SubSeq(LowerCase, k, k) ELSE c

RECURSIVE LowerStr(_)
LowerStr(s) == IF s = "" THEN "" ELSE LowerChar(Head(s)) \o LowerStr(Tail(s))

\* s.capitalize()
Capitalize(s) == IF s = "" THEN "" ELSE UpperChar(Head(s)) \o LowerStr(Tail(s))

month_names ==
  [ m \in {"1", "2", "3", "4", "5", "6", "7", "8", "9", "10", "11", "12"} |->
      CASE m = "1" -> "Jan" [] m = "2" -> "Feb" [] m = "3" -> "Mar"
        [] m = "4" -> "Apr" [] m = "5" -> "May" [] m = "6" -> "Jun"
        [] m = "7" -> "Jul" [] m = "8" -> "Aug" [] m = "9" -> "Sep"
        [] m = "10" -> "Oct" [] m = "11" -> "Nov" [] m = "12" -> "Dec" ]

\* A normalizer that cuts a textual month to 3 characters and leaves its case.
normalize_month_keep_case(month) ==
  IF IsDigit(month) THEN Get(month_names, month, month)
  ELSE SubSeq(month, 1, Min(3, Len(month)))

\* The month as it is printed.
normalize_month(month) ==
  IF IsDigit(month) THEN Get(month_names, month, month)
  ELSE IF month # "" THEN Capitalize(SubSeq(month, 1, Min(3, Len(month))))
  ELSE month

\* A formatter that prints the day whenever there is one.
format_date_day_first(year, month, day) ==
  IF day # "" THEN month \o " " \o day \o " " \o year
  ELSE IF month # "" THEN month \o " " \o year
  ELSE year

\* The format chosen from the components present.
format_date(year, month, day) ==
  IF month # "" /\ day # "" THEN month \o " " \o day \o " " \o year
  ELSE IF month # "" THEN month \o " " \o year
  ELSE year

format_publication_date(pub_date) ==
  IF pub_date = NoDate THEN "Date not available"
  ELSE LET year == Get(pub_date, "year", "")
           month == Get(pub_date, "month", "")
           day == Get(pub_date, "day", "")
       IN IF year = "" THEN "Date not available"
          ELSE format_date(year, normalize_month(month), day)

(* ---------------------- Corresponding Email Selector ------------------- *)

\* A selector that returns the last address found.
extract_corresponding_email_last(paper) ==
  LET emails == Get(paper, "emails", <<>>)
  IN IF emails # <<>> THEN emails[Len(emails)] ELSE "Email Unable to Retrieve"

extract_corresponding_email(paper) ==
  LET emails == Get(paper, "emails", <<>>)
  IN IF emails # <<>> THEN emails[1] ELSE "Email Unable to Retrieve"

(* ------------------------- record assembly ----------------------------- *)

NameOf(author) == Get(author, "name", "")
AffiliationOf(author) == Get(author, "affiliation", "")

\* list(set(...)): the elements of S once each, in an order the build picks.
ListsOfSet(S) ==
  {q \in SeqsUpTo(S, Cardinality(S)) : Len(q) = Cardinality(S) /\ Range(q) = S}

\* A record assembly that lists an affiliation once per author carrying it.
PubMedPapers_per_author(paper_data) ==
  LET authors == Get(paper_data, "authors", <<>>)
  IN { [ pubmed_id |-> Get(paper_data, "pmid", ""),
         title |-> Get(paper_data, "title", ""),
         publication_date |-> format_publication_date(Get(paper_data, "pub_date", NoDate)),
         non_academic_authors |->
           SelectSeq([k \in 1..Len(authors) |-> NameOf(authors[k])], LAMBDA nm : nm # ""),
         company_affiliations |->
           SelectSeq([k \in 1..Len(authors) |-> AffiliationOf(authors[k])],
                     LAMBDA af : af # ""),
         corresponding_email |-> extract_corresponding_email(paper_data) ] }

\* The PubMedPaper objects search_papers can make of one parsed paper.
PubMedPapers(paper_data) ==
  LET authors == Get(paper_data, "authors", <<>>)
      author_names ==
        SelectSeq([k \in 1..Len(authors) |-> NameOf(authors[k])], LAMBDA nm : nm # "")
      affiliation_set == {AffiliationOf(authors[k]) : k \in 1..Len(authors)} \ {""}
  IN { [ pubmed_id |-> Get(paper_data, "pmid", ""),
         title |-> Get(paper_data, "title", ""),
         publication_date |-> format_publication_date(Get(paper_data, "pub_date", NoDate)),
         non_academic_authors |-> author_names,
         company_affiliations |-> affiliations,
         corresponding_email |-> extract_corresponding_email(paper_data) ]
       : affiliations \in ListsOfSet(affiliation_set) }

\* The lists of PubMedPaper search_papers can return for the parsed papers.
RECURSIVE PapersOf(_)
PapersOf(paper_details) ==
  IF paper_details = <<>> THEN {<<>>}
  ELSE {<<p>> \o rest : p \in PubMedPapers(Head(paper_details)),
                        rest \in PapersOf(Tail(paper_details))}

(* ------------------------------ inputs --------------------------------- *)

\* The i-th identifier of a search response.
IdOf(i) == SubSeq(Digits, i + 1, i + 1) \o "2345"

\* The id lists a search response carries, and fetch_paper_details is called with.
IdLists == {[i \in 1..n |-> IdOf(i)] : n \in 0..MaxIds}

Queries == {"cancer therapy", "", "a) OR (b"}

SetOpen == [t |-> "PubmedArticleSet"]
ArticleOpen == [t |-> "PubmedArticle"]

\* One article with every field, as in the end-to-end scenario of the tests.
ArticleFull ==
  << [t |-> "PMID", v |-> "12345"],
     [t |-> "ArticleTitle", v |-> "Test Paper"],
     [t |-> "Author", LastName |-> "Doe", ForeName |-> "John", Affiliation |-> "Pfizer Inc."],
     [t |-> "PubDate", Year |-> "2023", Month |-> "Jan", Day |-> "15"],
     [t |-> "Email", v |-> "test@pfizer.com"] >>

\* An article whose only author carries no affiliation.
ArticleNoAffiliation ==
  << [t |-> "PMID", v |-> "67890"],
     [t |-> "ArticleTitle", v |-> "Field Study"],
     [t |-> "Author", LastName |-> "Roe", ForeName |-> "Jane"],
     [t |-> "PubDate", Year |-> "2021"] >>

\* Two authors, one academic and one from a company, and two e-mail addresses.
ArticleMixed ==
  << [t |-> "PMID", v |-> "24680"],
     [t |-> "ArticleTitle", v |-> "Joint Trial"],
     [t |-> "Author", LastName |-> "Poe", ForeName |-> "Ann",
                      Affiliation |-> " Harvard University "],
     [t |-> "Author", LastName |-> "Lee", ForeName |-> "", Affiliation |-> "Moderna Inc."],
     [t |-> "PubDate", Year |-> "2022", Month |-> "3"],
     [t |-> "Email", v |-> "ann@harvard.edu"],
     [t |-> "Email", v |-> "lee@moderna.com"] >>

\* A group author (no ForeName), no title, no date.
ArticleGroupAuthor ==
  << [t |-> "PMID", v |-> "13579"],
     [t |-> "Author", LastName |-> "Consortium"] >>

\* An article that cites another one (a second PMID element, in its
\* CommentsCorrections), two of its authors sharing a name, two an affiliation,
\* and one with a blank LastName and an empty ForeName.
ArticleCiting ==
  << [t |-> "PMID", v |-> "11111"],
     [t |-> "ArticleTitle", v |-> "Follow Up"],
     [t |-> "Author", LastName |-> "Kim", ForeName |-> "Sam", Affiliation |-> "Novartis AG"],
     [t |-> "Author", LastName |-> "Ray", ForeName |-> "Lou", Affiliation |-> "Novartis AG"],
     [t |-> "Author", LastName |-> "Kim", ForeName |-> "Sam"],
     [t |-> "Author", LastName |-> " ", ForeName |-> "", Affiliation |-> "Sandoz"],
     [t |-> "PubDate", Year |-> "2020", Month |-> "DEC", Day |-> "1"],
     [t |-> "PMID", v |-> "99999"] >>

ArticleSamples ==
  {ArticleFull, ArticleNoAffiliation, ArticleMixed, ArticleGroupAuthor, ArticleCiting}

RECURSIVE Render(_)
Render(arts) ==
  IF arts = <<>> THEN <<>> ELSE <<ArticleOpen>> \o Head(arts) \o Render(Tail(arts))

\* The detail documents the service answers with: the articles, inside the
\* <PubmedArticleSet> root or bare.
Documents ==
  { (IF root THEN <<SetOpen>> ELSE <<>>) \o Render(arts) :
      root \in BOOLEAN, arts \in SeqsUpTo(ArticleSamples, MaxArticles) }

\* What response.json() gives for a search response that is JSON.
SearchData ==
  {[error |-> "API rate limit exceeded"], [esearchresult |-> [count |-> "0"]]}
    \cup {[esearchresult |-> [idlist |-> ids]] : ids \in IdLists}

\* The bodies of a response with a success status.
Bodies(url) ==
  IF url = "SEARCH_URL"
  THEN {[kind |-> "text"]} \cup {[kind |-> "json", data |-> d] : d \in SearchData}
  ELSE {[kind |-> "xml", text |-> doc] : doc \in Documents}

\* The exceptions a request ends with: session.get raising, raise_for_status
\* raising on a non-success status, the user interrupting.
RequestFailures == {"ConnectionError", "Timeout", "HTTPError", "KeyboardInterrupt"}

Restrict(f, K) == [k \in K |-> f[k]]

\* The months of the dicts below: none, the numbers 1 to 12, other digit
\* strings, and month names of either case and of any length.
MonthInputs ==
  {"", "1", "2", "3", "4", "5", "6", "7", "8", "9", "10", "11", "12",
   "0", "13", "01", "Jan", "JANUARY", "january", "sept", "dEC", "ma"}

\* The dicts _format_publication_date is called with: any of the keys absent.
DateInputs ==
  { Restrict(full, K) :
      full \in [ year : {"", "2023"},
                 month : MonthInputs,
                 day : {"", "15"} ],
      K \in SUBSET {"year", "month", "day"} }

\* The addresses the email pattern finds: each has a local part, @, a domain.
EmailSamples == {"test@example.com", "other@example.com"}

\* The dicts _extract_corresponding_email is called with: the emails key
\* absent, or the list of addresses found.
PaperInputs ==
  {[pmid |-> "12345"]}
    \cup {[pmid |-> "12345", emails |-> found] : found \in SeqsUpTo(EmailSamples, MaxEmails)}

\* One invocation of the program: the entry point and its arguments.
Invocations ==
  { [entry |-> "main", query |-> q, output_file |-> f, debug |-> d,
     no_prefilter |-> n, help |-> h] :
      q \in {"", "cancer therapy"}, f \in {"", "results.csv"},
      d \in BOOLEAN, n \in BOOLEAN, h \in BOOLEAN }
  \cup { [entry |-> "search_papers", query |-> q, filter_companies |-> fc] :
           q \in Queries, fc \in BOOLEAN }
  \cup { [entry |-> "fetch_paper_details", pmids |-> ids] : ids \in IdLists }
  \cup { [entry |-> "format_publication_date", pub_date |-> pd] : pd \in DateInputs }
  \cup { [entry |-> "extract_corresponding_email", paper |-> p] : p \in PaperInputs }

(* ------------------------------- state --------------------------------- *)

VARIABLES
  call,          \* the invocation: entry point and arguments
  pc,            \* where the invocation is
  url,           \* the url of the request _make_request is making
  params,        \* its parameters
  response,      \* the response _make_request returned
  pmids,         \* the id list fetch_paper_details is called with
  paper_details, \* what fetch_paper_details returned to search_papers
  ret,           \* how the searcher call ended: returned a value or raised
  exit_status,   \* <<>> while running, <<code>> once the CLI process has exited
  echoed,        \* the messages the CLI has printed
  events         \* history: the sleeps, requests, calls and parses so far

vars == <<call, pc, url, params, response, pmids, paper_details, ret,
          exit_status, echoed, events>>

Returned(v) == [kind |-> "return", val |-> v]
Raised(cls, msg) == [kind |-> "raise", exc |-> Exc(cls, msg)]
Pending == [kind |-> "none"]

\* body: what a request was answered with, <<>> for the other events.
Event(op, u, arg, outcome, body) ==
  [op |-> op, url |-> u, arg |-> arg, outcome |-> outcome, body |-> body]

Init ==
  /\ call \in Invocations
  /\ pc = call.entry
  /\ url = ""
  /\ params = <<>>
  /\ response = <<>>
  /\ pmids = IF call.entry = "fetch_paper_details" THEN call.pmids ELSE <<>>
  /\ paper_details = <<>>
  /\ ret = Pending
  /\ exit_status = <<>>
  /\ echoed = <<>>
  /\ events = <<>>

InSearch == call.entry \in {"main", "search_papers"}

InMain == call.entry = "main"

(* ------------------------- exception handlers -------------------------- *)

\* A fetch_paper_details without its except clause.
FetchExcept_propagate(o) == o

\* fetch_paper_details: what leaves its try block, after its except clause.
FetchExcept(o) ==
  IF o.kind = "raise" /\ IsRequestException(o.exc.cls)
  THEN Raised("PubMedAPIError", "Failed to fetch paper details")
  ELSE o

\* A search_papers that answers an error with an empty list.
SearchExcept_swallow(o) ==
  IF o.kind = "raise" /\ IsException(o.exc.cls) THEN Returned(<<>>) ELSE o

\* search_papers: what leaves its try block, after its except clauses.
SearchExcept(o) ==
  IF o.kind = "raise" /\ IsRequestException(o.exc.cls)
  THEN Raised("PubMedAPIError", "Failed to search PubMed")
  ELSE IF o.kind = "raise" /\ IsException(o.exc.cls)
  THEN Raised("PubMedAPIError", "Unexpected error during PubMed search")
  ELSE o

\* A main whose API error handler prints the message and returns.
main_except_no_exit(exc, debug) ==
  CASE exc.cls = "PubMedAPIError" -> [exit |-> <<0>>, echo |-> <<"Error accessing PubMed">>]
    [] OTHER -> [exit |-> <<1>>, echo |-> <<"An unexpected error occurred">>]

\* main: the except clauses of its try block.  A SystemExit (the sys.exit(1) of
\* save_papers_csv) is caught by none and ends the process with its code; the
\* exception re-raised in debug mode leaves main, and the interpreter ends with
\* a traceback and status 1.
main_except(exc, debug) ==
  CASE exc.cls = "PubMedAPIError" -> [exit |-> <<1>>, echo |-> <<"Error accessing PubMed">>]
    [] exc.cls = "KeyboardInterrupt" -> [exit |-> <<1>>, echo |-> <<"Operation cancelled by user.">>]
    [] exc.cls = "SystemExit" -> [exit |-> <<1>>, echo |-> <<>>]
    [] OTHER ->
         IF debug
         THEN [exit |-> <<1>>, echo |-> <<"An unexpected error occurred", "Traceback">>]
         ELSE [exit |-> <<1>>, echo |-> <<"An unexpected error occurred">>]

\* An exception reaches main's handlers.
MainCatches(exc) ==
  LET h == main_except(exc, call.debug)
  IN /\ exit_status' = h.exit
     /\ echoed' = echoed \o h.echo
     /\ pc' = "done"

\* search_papers ends with o: back in main, or the invocation is over.
SearchLeaves(o) ==
  /\ ret' = o
  /\ IF InMain
     THEN IF o.kind = "raise"
          THEN MainCatches(o.exc)
          ELSE pc' = "main_output" /\ UNCHANGED <<exit_status, echoed>>
     ELSE pc' = "done" /\ UNCHANGED <<exit_status, echoed>>

\* fetch_paper_details ends with o: back in search_papers' try block, or the
\* invocation is over.
FetchLeaves(o) ==
  IF InSearch
  THEN IF o.kind = "raise"
       THEN SearchLeaves(SearchExcept(o)) /\ UNCHANGED paper_details
       ELSE /\ paper_details' = o.val
            /\ pc' = "search_papers_build"
            /\ UNCHANGED <<ret, exit_status, echoed>>
  ELSE /\ ret' = o
       /\ pc' = "done"
       /\ UNCHANGED <<paper_details, exit_status, echoed>>

\* _make_request raises: the exception passes the try blocks it is made in.
RequestRaises(o) ==
  IF url = "FETCH_URL"
  THEN FetchLeaves(FetchExcept(o))
  ELSE SearchLeaves(SearchExcept(o)) /\ UNCHANGED paper_details

(* ------------------------------ actions -------------------------------- *)

\* main, to the call of search_papers.
main_start ==
  /\ pc = "main"
  /\ IF call.help \/ call.query = ""
     THEN /\ echoed' = Append(echoed, "help")
          /\ exit_status' = <<0>>
          /\ pc' = "done"
     ELSE /\ echoed' = Append(echoed, "Searching PubMed for")
          /\ pc' = "search_papers"
          /\ UNCHANGED exit_status
  /\ UNCHANGED <<call, url, params, response, pmids, paper_details, ret, events>>

\* search_papers, to its call of _make_request.
search_papers_call ==
  /\ pc = "search_papers"
  /\ LET filter_companies ==
           IF InMain THEN ~call.no_prefilter ELSE call.filter_companies
     IN params' = [ db |-> "pubmed",
                    term |-> enhanced_query(call.query, filter_companies),
                    retmax |-> "200",
                    retmode |-> "json",
                    sort |-> "relevance" ]
  /\ url' = "SEARCH_URL"
  /\ pc' = "sleep"
  /\ UNCHANGED <<call, response, pmids, paper_details, ret, exit_status, echoed, events>>

\* A _make_request that does not wait.
make_request_no_sleep ==
  /\ pc = "sleep"
  /\ pc' = "get"
  /\ UNCHANGED <<call, url, params, response, pmids, paper_details, ret,
                 exit_status, echoed, events>>

\* _make_request: time.sleep(self.rate_limit), which the user may interrupt.
make_request_sleep ==
  /\ pc = "sleep"
  /\ \E outcome \in {"ok", "KeyboardInterrupt"} :
       /\ events' = Append(events, Event("sleep", url, "rate_limit", outcome, <<>>))
       /\ IF outcome = "ok"
          THEN pc' = "get" /\ UNCHANGED <<paper_details, ret, exit_status, echoed>>
          ELSE RequestRaises(Raised(outcome, ""))
  /\ UNCHANGED <<call, url, params, response, pmids>>

\* _make_request: session.get and raise_for_status.
make_request_get ==
  /\ pc = "get"
  /\ \/ \E failure \in RequestFailures :
          /\ events' = Append(events, Event("get", url, params, failure, <<>>))
          /\ RequestRaises(Raised(failure, ""))
          /\ UNCHANGED response
     \/ \E body \in Bodies(url) :
          /\ events' = Append(events, Event("get", url, params, "ok", body))
          /\ response' = [status |-> "ok", body |-> body]
          /\ pc' = IF url = "SEARCH_URL" THEN "search_papers_response"
                                         ELSE "fetch_paper_details_response"
          /\ UNCHANGED <<paper_details, ret, exit_status, echoed>>
  /\ UNCHANGED <<call, url, params, pmids>>

\* A search_papers that fetches whatever the id list holds.
search_no_ids_never(ids) == FALSE

\* search_papers: if not pmids.
search_no_ids(ids) == ids = <<>>

\* search_papers, from the search response to the call of fetch_paper_details.
search_papers_response ==
  /\ pc = "search_papers_response"
  /\ LET body == response.body
     IN IF body.kind # "json"
        THEN /\ SearchLeaves(SearchExcept(Raised("ValueError", "response.json()")))
             /\ UNCHANGED pmids
        ELSE IF "esearchresult" \notin DOMAIN body.data
        THEN /\ SearchLeaves(SearchExcept(
                  Raised("PubMedAPIError", "Invalid response format from PubMed search")))
             /\ UNCHANGED pmids
        ELSE LET ids == Get(body.data.esearchresult, "idlist", <<>>)
             IN IF search_no_ids(ids)
                THEN SearchLeaves(Returned(<<>>)) /\ UNCHANGED pmids
                ELSE /\ pmids' = ids
                     /\ pc' = "fetch_paper_details"
                     /\ UNCHANGED <<ret, exit_status, echoed>>
  /\ UNCHANGED <<call, url, params, response, paper_details, events>>

\* A fetch_paper_details that asks the service whatever the id list holds.
fetch_no_ids_never(ids) == FALSE

\* fetch_paper_details: if not pmids.
fetch_no_ids(ids) == ids = <<>>

\* fetch_paper_details, to its call of _make_request.
fetch_paper_details_call ==
  /\ pc = "fetch_paper_details"
  /\ events' = Append(events, Event("fetch_paper_details", "", pmids, "called", <<>>))
  /\ IF fetch_no_ids(pmids)
     THEN FetchLeaves(Returned(<<>>)) /\ UNCHANGED <<url, params>>
     ELSE /\ params' = [db |-> "pubmed", id |-> Join(",", pmids), retmode |-> "xml"]
          /\ url' = "FETCH_URL"
          /\ pc' = "sleep"
          /\ UNCHANGED <<paper_details, ret, exit_status, echoed>>
  /\ UNCHANGED <<call, response, pmids>>

\* fetch_paper_details, from the detail response: the parser runs.
fetch_paper_details_response ==
  /\ pc = "fetch_paper_details_response"
  /\ events' = Append(events, Event("parse", "", "", "ok", <<>>))
  /\ FetchLeaves(FetchExcept(Returned(parse_xml_response(response.body.text))))
  /\ UNCHANGED <<call, url, params, response, pmids>>

\* search_papers, from the parsed papers to its return.
search_papers_build ==
  /\ pc = "search_papers_build"
  /\ \E papers \in PapersOf(paper_details) : SearchLeaves(SearchExcept(Returned(papers)))
  /\ UNCHANGED <<call, url, params, response, pmids, paper_details, events>>

\* How writing the CSV file, or printing the table, can end.
OutputOutcomes(output_file) ==
  IF output_file # "" THEN {"ok", "IOError", "UnicodeEncodeError"} ELSE {"ok", "RuntimeError"}

\* main, from the return of search_papers: the output.
main_output ==
  /\ pc = "main_output"
  /\ IF ret.val = <<>>
     THEN /\ echoed' = Append(echoed, "No papers found for the given query.")
          /\ exit_status' = <<0>>
          /\ pc' = "done"
          /\ UNCHANGED events
     ELSE \E outcome \in OutputOutcomes(call.output_file) :
            /\ events' = Append(events,
                 Event(IF call.output_file # "" THEN "save_papers_csv"
                                                ELSE "display_papers_table",
                       "", call.output_file, outcome, <<>>))
            /\ IF outcome = "ok"
               THEN /\ echoed' = Append(echoed,
                         IF call.output_file # "" THEN "Results saved to"
                         ELSE "Found papers with pharmaceutical/biotech company affiliations")
                    /\ exit_status' = <<0>>
                    /\ pc' = "done"
               ELSE IF outcome = "IOError" /\ call.output_file # ""
               THEN /\ echoed' = Append(echoed, "Error saving to file")
                    /\ exit_status' = main_except(Exc("SystemExit", "1"), call.debug).exit
                    /\ pc' = "done"
               ELSE MainCatches(Exc(outcome, ""))
  /\ UNCHANGED <<call, url, params, response, pmids, paper_details, ret>>

\* A direct call of _format_publication_date.
format_publication_date_call ==
  /\ pc = "format_publication_date"
  /\ ret' = Returned(format_publication_date(call.pub_date))
  /\ pc' = "done"
  /\ UNCHANGED <<call, url, params, response, pmids, paper_details,
                 exit_status, echoed, events>>

\* A direct call of _extract_corresponding_email.
extract_corresponding_email_call ==
  /\ pc = "extract_corresponding_email"
  /\ ret' = Returned(extract_corresponding_email(call.paper))
  /\ pc' = "done"
  /\ UNCHANGED <<call, url, params, response, pmids, paper_details,
                 exit_status, echoed, events>>

Next ==
  \/ main_start
  \/ search_papers_call
  \/ make_request_sleep
  \/ make_request_get
  \/ search_papers_response
  \/ fetch_paper_details_call
  \/ fetch_paper_details_response
  \/ search_papers_build
  \/ main_output
  \/ format_publication_date_call
  \/ extract_corresponding_email_call

Spec == Init /\ [][Next]_vars

(* ------------------------------ claims --------------------------------- *)

Done == pc = "done"

IsGet(e) == e.op = "get"
Gets == SelectSeq(events, IsGet)

\* A request that failed at the network level or was answered with a
\* non-success status.
RequestFailed(e) == e.op = "get" /\ e.outcome \in {"ConnectionError", "Timeout", "HTTPError"}

\* A response with a success status that lacks its expected top-level field:
\* the esearchresult field of a search result, the <PubmedArticleSet> root of a
\* detail document.
Malformed(e) ==
  /\ e.op = "get" /\ e.outcome = "ok"
  /\ IF e.url = "SEARCH_URL"
     THEN e.body.kind = "json" /\ "esearchresult" \notin DOMAIN e.body.data
     ELSE e.body.text = <<>> \/ e.body.text[1].t # "PubmedArticleSet"

RaisedAPIError == ret.kind = "raise" /\ ret.exc.cls = "PubMedAPIError"

\* The filter_companies argument of the search_papers call.
FilterCompanies == IF InMain THEN ~call.no_prefilter ELSE call.filter_companies

\* C1 as stated: search_papers and fetch_paper_details end by raising
\* PubMedAPIError whenever a request of theirs failed at the network level, was
\* answered with a non-success status, or was answered with a response lacking
\* its expected top-level field.
C1_RaisesOnMalformedToo ==
  (Done /\ \E i \in 1..Len(events) : RequestFailed(events[i]) \/ Malformed(events[i]))
    => RaisedAPIError

\* C1 as amended: a failed request (network level or non-success status) of
\* either operation, and a search response without its esearchresult field,
\* end the call by raising PubMedAPIError and nothing else; a detail response
\* with a success status raises nothing, whatever its shape: the call returns.
C1_UniformAPIError ==
  Done =>
    /\ (\E i \in 1..Len(events) : RequestFailed(events[i])) => RaisedAPIError
    /\ (\E i \in 1..Len(events) : events[i].url = "SEARCH_URL" /\ Malformed(events[i]))
         => RaisedAPIError
    /\ (\E i \in 1..Len(events) :
          events[i].op = "get" /\ events[i].url = "FETCH_URL" /\ events[i].outcome = "ok")
         => ret.kind = "return"

\* C1 witness: a direct fetch_paper_details whose request was answered with a
\* non-success status has raised PubMedAPIError.
C1_Witness ==
  /\ Done /\ call.entry = "fetch_paper_details"
  /\ \E i \in 1..Len(events) : events[i].op = "get" /\ events[i].outcome = "HTTPError"
  /\ RaisedAPIError

\* C2: every GET is immediately preceded by a completed sleep of rate_limit
\* seconds taken for that same request.
C2_SleepBeforeEveryGet ==
  \A i \in 1..Len(events) :
    events[i].op = "get" =>
      /\ i > 1
      /\ events[i - 1].op = "sleep"
      /\ events[i - 1].outcome = "ok"
      /\ events[i - 1].arg = "rate_limit"
      /\ events[i - 1].url = events[i].url

\* C2 witness: a run that has sent both the search and the detail request.
C2_Witness ==
  /\ Len(Gets) = 2
  /\ Gets[1].url = "SEARCH_URL" /\ Gets[2].url = "FETCH_URL"

\* C3: in a search_papers call a failed search request is the last thing that
\* happens (no retry, no detail request, no parse) and the call has raised
\* PubMedAPIError; the requests of a call are at most the search request
\* followed by at most one detail request.
C3_FailedSearchEndsCall ==
  InSearch =>
    /\ \A i \in 1..Len(events) :
         (RequestFailed(events[i]) /\ events[i].url = "SEARCH_URL") =>
           i = Len(events) /\ Done /\ RaisedAPIError
    /\ Len(Gets) <= 2
    /\ Len(Gets) >= 1 => Gets[1].url = "SEARCH_URL"
    /\ Len(Gets) = 2 => Gets[2].url = "FETCH_URL"

\* C3 witness: a search_papers call whose search request timed out.
C3_Witness ==
  /\ call.entry = "search_papers" /\ events # <<>>
  /\ events[Len(events)].op = "get"
  /\ events[Len(events)].url = "SEARCH_URL"
  /\ events[Len(events)].outcome = "Timeout"

\* C4 as stated: every record search_papers returns (and so every record the
\* CLI prints or saves) has at least one company affiliation.
C4_OnlyAffiliatedPapers ==
  (InSearch /\ ret.kind = "return") =>
    \A i \in 1..Len(ret.val) : ret.val[i].company_affiliations # <<>>

\* C5: fetch_paper_details called with an empty id list sleeps for nothing,
\* sends nothing, and returns the empty list.
C5_EmptyIdListIsNoop ==
  (call.entry = "fetch_paper_details" /\ call.pmids = <<>>) =>
    /\ \A i \in 1..Len(events) : events[i].op \notin {"sleep", "get", "parse"}
    /\ Done => ret = Returned(<<>>)

\* C5 witness: such a call has returned.
C5_Witness == Done /\ call.entry = "fetch_paper_details" /\ call.pmids = <<>>

\* A search response whose result field carries no identifier.
ZeroIds(e) ==
  /\ e.op = "get" /\ e.url = "SEARCH_URL" /\ e.outcome = "ok"
  /\ e.body.kind = "json" /\ "esearchresult" \in DOMAIN e.body.data
  /\ Get(e.body.data.esearchresult, "idlist", <<>>) = <<>>

\* C6: after a search response with zero identifiers, search_papers returns
\* the empty list, fetch_paper_details is never called and the search request
\* stays the only request of the call.
C6_ZeroIdsNoFetch ==
  (InSearch /\ \E i \in 1..Len(events) : ZeroIds(events[i])) =>
    /\ \A i \in 1..Len(events) : events[i].op # "fetch_paper_details"
    /\ Len(Gets) = 1
    /\ pc # "search_papers_response" => ret = Returned(<<>>)

\* C6 witness: a search_papers call that ended on a response without an idlist.
C6_Witness ==
  /\ Done /\ call.entry = "search_papers"
  /\ \E i \in 1..Len(events) :
       ZeroIds(events[i]) /\ "idlist" \notin DOMAIN events[i].body.data.esearchresult

IsOutput(e) == e.op \in {"save_papers_csv", "display_papers_table"}

\* The output step ended with an exception: the CSV file could not be
\* written, or something unexpected was raised.
OutputFailed == \E i \in 1..Len(events) : IsOutput(events[i]) /\ events[i].outcome # "ok"

\* C7: the CLI exits with 1 when search_papers raised or the output step
\* failed (file not writable, or an unexpected exception, debug or not), and
\* with 0 otherwise: results shown or saved, no results, help.
C7_ExitCodes ==
  (InMain /\ Done) =>
    exit_status = IF ret.kind = "raise" \/ OutputFailed THEN <<1>> ELSE <<0>>

\* C7 witness: in debug mode an unexpected exception ended the output step.
C7_Witness ==
  /\ InMain /\ Done /\ call.debug
  /\ \E i \in 1..Len(events) :
       IsOutput(events[i]) /\ events[i].outcome \notin {"ok", "IOError"}

\* C8: with pre-filtering disabled the term of the search request is the
\* caller's query string itself.
C8_QueryUnchanged ==
  \A i \in 1..Len(events) :
    (events[i].op = "get" /\ events[i].url = "SEARCH_URL" /\ ~FilterCompanies) =>
      events[i].arg.term = call.query

\* C8 witness: an unfiltered search for a query that itself holds parentheses
\* and an operator has been sent.
C8_Witness ==
  /\ InSearch /\ ~FilterCompanies /\ call.query = "a) OR (b"
  /\ Len(Gets) >= 1

FieldTag == "[ad]"

EndsWith(s, p) == Len(p) <= Len(s) /\ SubSeq(s, Len(s) - Len(p) + 1, Len(s)) = p

\* The number of occurrences of p in s, counted left to right without overlap.
RECURSIVE CountSub(_, _)
CountSub(s, p) ==
  IF Len(s) < Len(p) THEN 0
  ELSE IF StartsWith(s, p) THEN 1 + CountSub(SubSeq(s, Len(p) + 1, Len(s)), p)
  ELSE CountSub(Tail(s), p)

\* A clause is one term carrying the field tag once, at its end.
OneTaggedTerm(clause) == EndsWith(clause, FieldTag) /\ CountSub(clause, FieldTag) = 1

\* C9 as stated: with pre-filtering enabled the term sent is (q) AND (the
\* affiliation clauses joined by OR) NOT (the exclusion clauses joined by OR),
\* and every clause of both disjunctions carries the [ad] tag exactly once.
C9_TaggedOncePerClause ==
  \A i \in 1..Len(events) :
    (events[i].op = "get" /\ events[i].url = "SEARCH_URL" /\ FilterCompanies) =>
      /\ events[i].arg.term =
           "(" \o call.query \o ") AND (" \o Join(" OR ", company_affiliation_parts)
               \o ") NOT (" \o Join(" OR ", academic_exclusions) \o ")"
      /\ \A k \in 1..Len(company_affiliation_parts) :
           OneTaggedTerm(company_affiliation_parts[k])
      /\ \A k \in 1..Len(academic_exclusions) : OneTaggedTerm(academic_exclusions[k])

\* C10: the shape of the normalized date is fixed by the components present.
C10_DateShape ==
  (Done /\ call.entry = "format_publication_date") =>
    LET year == Get(call.pub_date, "year", "")
        month == Get(call.pub_date, "month", "")
        day == Get(call.pub_date, "day", "")
        shown == normalize_month(month)
    IN ret.val =
         IF year = "" THEN "Date not available"
         ELSE IF month # "" /\ day # "" THEN shown \o " " \o day \o " " \o year
         ELSE IF month # "" THEN shown \o " " \o year
         ELSE year

\* C10 witness: a date with a year and a day but no month has been formatted.
C10_Witness ==
  /\ Done /\ call.entry = "format_publication_date"
  /\ DOMAIN call.pub_date = {"year", "day"}
  /\ call.pub_date.year # "" /\ call.pub_date.day # ""

MonthNumbers == <<"1", "2", "3", "4", "5", "6", "7", "8", "9", "10", "11", "12">>
Abbreviations ==
  <<"Jan", "Feb", "Mar", "Apr", "May", "Jun", "Jul", "Aug", "Sep", "Oct", "Nov", "Dec">>

\* The month C11 expects in the normalized date.
ExpectedMonth(month) ==
  IF \E k \in 1..Len(MonthNumbers) : MonthNumbers[k] = month
  THEN Abbreviations[CHOOSE k \in 1..Len(MonthNumbers) : MonthNumbers[k] = month]
  ELSE IF \A i \in 1..Len(month) : CharIn(SubSeq(month, i, i), Digits)
  THEN month
  ELSE LET cut == SubSeq(month, 1, Min(3, Len(month)))
       IN UpperChar(Head(cut)) \o LowerStr(Tail(cut))

\* C11: in the normalized date a month given as a number 1 to 12 is shown as
\* the abbreviation of that month (1 Jan, ..., 12 Dec), any other all-digit
\* month is shown unchanged, and a textual month of any case is shown as its
\* first 3 characters, the first upper-cased and the rest lower-cased.
C11_MonthNormalization ==
  (Done /\ call.entry = "format_publication_date") =>
    LET year == Get(call.pub_date, "year", "")
        month == Get(call.pub_date, "month", "")
        day == Get(call.pub_date, "day", "")
    IN (year # "" /\ month # "") =>
         ret.val = ExpectedMonth(month) \o (IF day # "" THEN " " \o day ELSE "")
                     \o " " \o year

\* C11 witness: an upper-case month name has been normalized to Jan.
C11_Witness ==
  /\ Done /\ call.entry = "format_publication_date"
  /\ DOMAIN call.pub_date = {"year", "month"}
  /\ call.pub_date.year = "2023" /\ call.pub_date.month = "JANUARY"
  /\ ret = Returned("Jan 2023")

Sentinel == "Email Unable to Retrieve"

\* The address C12 expects for a list of extracted addresses.
FirstOrSentinel(found) == IF Len(found) >= 1 THEN Head(found) ELSE Sentinel

\* C12: the selector returns the first address of the record's extracted email
\* list when the list is not empty and the sentinel "Email Unable to Retrieve"
\* when it is empty or absent, never another element or an empty string; the
\* corresponding_email of every record search_papers returns is chosen so.
C12_FirstEmailOrSentinel ==
  /\ (Done /\ call.entry = "extract_corresponding_email") =>
        /\ ret.kind = "return"
        /\ ret.val # ""
        /\ ret.val = IF "emails" \in DOMAIN call.paper
                     THEN FirstOrSentinel(call.paper.emails) ELSE Sentinel
  /\ (InSearch /\ ret.kind = "return") =>
        /\ Len(ret.val) = Len(paper_details)
        /\ \A i \in 1..Len(ret.val) :
             /\ ret.val[i].corresponding_email # ""
             /\ ret.val[i].corresponding_email = FirstOrSentinel(paper_details[i].emails)

\* C12 witness: the selector was called with two different addresses and has
\* returned the first.
C12_Witness ==
  /\ Done /\ call.entry = "extract_corresponding_email"
  /\ "emails" \in DOMAIN call.paper
  /\ Len(call.paper.emails) = 2
  /\ call.paper.emails[1] # call.paper.emails[2]
  /\ ret = Returned(call.paper.emails[1])

\* The parser has run on the detail document of the response.
Parsed == \E i \in 1..Len(events) : events[i].op = "parse"

\* The RawPapers it emitted.
RawPapers == IF InSearch THEN paper_details ELSE ret.val

\* The record segments of the document: what follows each record-start marker.
Segments == Tail(SplitArticles(response.body.text))

DocumentIds == FindAll("PMID", response.body.text)
DocumentTitles == FindAll("ArticleTitle", response.body.text)

\* The named authors of one segment, as the parser reports them.
AuthorsIn(segment) ==
  LET named == SelectSeq(segment, LAMBDA tok : tok.t = "Author" /\ HasName(tok))
  IN [k \in 1..Len(named) |-> author_info(named[k])]

\* C13: the parser emits min(number of record segments, number of identifiers
\* in the whole document) RawPapers, in segment order; the i-th carries the
\* i-th identifier and the i-th title of the whole document (an empty title
\* when there are fewer), and the authors, date and emails of the i-th segment.
C13_PositionalAlignment ==
  Parsed =>
    /\ Len(RawPapers) = Min(Len(Segments), Len(DocumentIds))
    /\ \A i \in 1..Len(RawPapers) :
         /\ RawPapers[i].pmid = DocumentIds[i]
         /\ RawPapers[i].title =
              IF i <= Len(DocumentTitles) THEN DocumentTitles[i] ELSE ""
         /\ RawPapers[i].authors = AuthorsIn(Segments[i])
         /\ RawPapers[i].pub_date = pub_date_of(Segments[i])
         /\ RawPapers[i].emails = FindAll("Email", Segments[i])

\* C13 witness: a document of two segments, three identifiers and one title
\* was parsed; the second RawPaper carries an identifier that is not in its
\* segment, and an empty title.
C13_Witness ==
  /\ Parsed
  /\ Len(Segments) = 2 /\ Len(DocumentIds) = 3 /\ Len(DocumentTitles) = 1
  /\ Len(RawPapers) = 2
  /\ RawPapers[2].pmid \notin Range(FindAll("PMID", Segments[2]))
  /\ RawPapers[2].title = ""

\* The positions of the authors of a RawPaper whose field is not empty.
NonEmptyAt(authors, field) == {k \in 1..Len(authors) : authors[k][field] # ""}

\* listed holds the field of the authors at the positions K, in their order.
ListsInOrder(listed, authors, field, K) ==
  /\ Len(listed) = Cardinality(K)
  /\ \A j \in 1..Len(listed) :
       \E k \in K : /\ Cardinality({m \in K : m <= k}) = j
                    /\ listed[j] = authors[k][field]

\* C14: in every record search_papers makes of a RawPaper, the author-name
\* list is the RawPaper's non-empty author names in their order, duplicates
\* kept (so an author without affiliation is listed too), and the affiliation
\* list holds each non-empty affiliation of the RawPaper's authors exactly
\* once and nothing else.
C14_NamesKeptAffiliationsOnce ==
  (InSearch /\ ret.kind = "return") =>
    /\ Len(ret.val) = Len(paper_details)
    /\ \A i \in 1..Len(ret.val) :
         LET authors == paper_details[i].authors
             names == ret.val[i].non_academic_authors
             affiliations == ret.val[i].company_affiliations
         IN /\ ListsInOrder(names, authors, "name", NonEmptyAt(authors, "name"))
            /\ \A k \in 1..Len(authors) :
                 (authors[k].affiliation = "" /\ authors[k].name # "")
                   => authors[k].name \in Range(names)
            /\ Range(affiliations) =
                 {authors[k].affiliation : k \in NonEmptyAt(authors, "affiliation")}
            /\ \A j, k \in 1..Len(affiliations) :
                 affiliations[j] = affiliations[k] => j = k

\* C14 witness: search_papers has returned the record of a RawPaper with two
\* authors of one name, two of one affiliation, one without affiliation and
\* one without name.
C14_Witness ==
  /\ Done /\ InSearch /\ ret.kind = "return"
  /\ \E i \in 1..Len(ret.val) :
       LET authors == paper_details[i].authors
       IN /\ \E j, k \in 1..Len(authors) :
               j # k /\ authors[j].name = authors[k].name
          /\ \E j, k \in 1..Len(authors) :
               /\ j # k /\ authors[j].affiliation # ""
               /\ authors[j].affiliation = authors[k].affiliation
          /\ \E k \in 1..Len(authors) : authors[k].affiliation = ""
          /\ \E k \in 1..Len(authors) : authors[k].name = ""
          /\ Len(ret.val[i].non_academic_authors) = Len(authors) - 1
          /\ Len(ret.val[i].company_affiliations) = 2

\* The positions of the article start tags of a document.
ArticleStarts(doc) == {i \in 1..Len(doc) : doc[i].t = "PubmedArticle"}

\* The position of the k-th of them.
KthStart(doc, k) ==
  CHOOSE i \in ArticleStarts(doc) : Cardinality({j \in ArticleStarts(doc) : j <= i}) = k

\* The k-th article of a document: what lies between its start tag and the next.
ArticleAt(doc, k) ==
  SubSeq(doc, KthStart(doc, k) + 1,
         IF k < Cardinality(ArticleStarts(doc)) THEN KthStart(doc, k + 1) - 1 ELSE Len(doc))

\* C15 as stated: only the start tag of an article is a record-start marker;
\* a document whose N articles are inside the <PubmedArticleSet> root is split
\* into N record segments after the discarded first one, the k-th RawPaper
\* takes its authors, date and emails from the k-th article, and all N
\* articles are emitted when N identifiers are found.
C15_OnlyArticleTagsSplit ==
  (Parsed /\ response.body.text # <<>> /\ Head(response.body.text) = SetOpen) =>
    LET doc == response.body.text
        N == Cardinality(ArticleStarts(doc))
    IN N >= 1 =>
       /\ Len(Segments) = N
       /\ Len(DocumentIds) = N => Len(RawPapers) = N
       /\ \A k \in 1..Len(RawPapers) :
            /\ k <= N
            /\ RawPapers[k].authors = AuthorsIn(ArticleAt(doc, k))
            /\ RawPapers[k].pub_date = pub_date_of(ArticleAt(doc, k))
            /\ RawPapers[k].emails = FindAll("Email", ArticleAt(doc, k))

====
